---- MODULE Spec2Model ----
(***************************************************************************)
(* Model of the offline speaker-diarization stage of whisperlive-salad:    *)
(*   src/whisper_live/diarization.py  (class OfflineDiarizer)              *)
(*   src/run_diarization.py           (command-line driver, main)          *)
(*                                                                         *)
(* Times are seconds.  The code holds them as floats; the model draws them *)
(* from 0..MaxTime, on which min, max, subtraction and comparison are      *)
(* exact, as they are on floats of that size.                              *)
(***************************************************************************)
EXTENDS Integers, Sequences, FiniteSets, TLC

\* ------------------------------------------------------------------ bounds
\* Largest time stamp drawn for a segment or a turn.
MaxTime == 2
\* Longest turn list handed to assign_speakers.
MaxTurns == 2
\* Longest segment list handed to assign_speakers.
MaxSegs == 1
\* Most [PROGRESS] lines the reporter prints in one run (the engine call
\* returns before 30 s * (MaxNotices + 1) have passed).
MaxNotices == 1

\* --------------------------------------------------------------- constants
\* Python's None.
None == "<None>"
\* A dictionary key that is not there (a segment before alignment has no
\* 'speaker' key).
Absent == "<absent>"
\* The sentinel of diarization.py line 251.
UNKNOWN == "UNKNOWN"
\* Speaker labels a turn may carry (List[Tuple[float, float, str]], line 221):
\* opaque strings, the empty string among them.
SpeakerIds == {"", "A", "B"}

VARIABLES
    segments,     \* the list of segment dicts assign_speakers works on (in place)
    turns,        \* the diarization list of (start, end, speaker) tuples
    runs,         \* calls of assign_speakers made so far on `segments`
    inSegments,   \* history: the segment list as it was handed in
    firstRun,     \* history: the segment list as the first call left it
    \* --- one command-line run (run_diarization.py main) ---
    pc,           \* where the primary thread is
    exitStatus,   \* "running", or the process's exit status "0" / "1"
    failure,      \* why the run is ending with status 1 ("" if it is not)
    diarizer,     \* the OfflineDiarizer object: built, hf_token, loadedFrom
    doc,          \* the JSON document read from the transcription file
    loadOutcome,  \* history: how the call of load_transcription ended
    rawResult,    \* what the diarization engine call returned
    wav,          \* the audio file as wave.open found it
    stop_progress,\* the threading.Event of diarize_file: is it set
    worker,       \* where the progress thread (print_progress) is
    notices,      \* [PROGRESS] lines printed so far
    result,       \* the dict process returned
    files         \* the output files: "none", "partial" or "written" each

alignVars == <<runs, inSegments, firstRun>>
runVars == <<pc, exitStatus, failure, diarizer, doc, loadOutcome, rawResult,
             wav, stop_progress, worker, notices, result, files>>
vars == <<segments, turns, alignVars, runVars>>

\* ------------------------------------------------ assign_speakers (218-253)
Max2(a, b) == IF b > a THEN b ELSE a
Min2(a, b) == IF b < a THEN b ELSE a

\* diarization.py 243-245: the overlap of segment [segStart, segEnd] with
\* turn [start, end].
Overlap(segStart, segEnd, start, end) ==
    Max2(0, Min2(segEnd, end) - Max2(segStart, start))

\* Python truthiness of best_speaker (line 251): None and "" are falsy.
Truthy(x) == x # None /\ x # ""

\* ScanTurns with >= for > at line 247.
RECURSIVE ScanTurnsGe(_, _, _, _)
ScanTurnsGe(seg, diarization, i, best) ==
    IF i > Len(diarization) THEN best
    ELSE LET t == diarization[i]
             overlap == Overlap(seg.start, seg.end, t[1], t[2])
         IN  IF overlap >= best[2]
             THEN ScanTurnsGe(seg, diarization, i + 1, <<t[3], overlap>>)
             ELSE ScanTurnsGe(seg, diarization, i + 1, best)

\* diarization.py 241-249: the scan of the turn list from index i on, carrying
\* best as <<best_speaker, best_overlap>>.
RECURSIVE ScanTurns(_, _, _, _)
ScanTurns(seg, diarization, i, best) ==
    IF i > Len(diarization) THEN best
    ELSE LET t == diarization[i]
             overlap == Overlap(seg.start, seg.end, t[1], t[2])
         IN  IF overlap > best[2]
             THEN ScanTurns(seg, diarization, i + 1, <<t[3], overlap>>)
             ELSE ScanTurns(seg, diarization, i + 1, best)

\* diarization.py 233-251: one iteration of the segment loop.
LabelSegment(seg, diarization) ==
    LET best == ScanTurns(seg, diarization, 1, <<None, 0>>)
    IN  [seg EXCEPT !.speaker = IF Truthy(best[1]) THEN best[1] ELSE UNKNOWN]

\* assign_speakers returning only the segments that found a speaker.
assign_speakersDropUnknown(segs, diarization) ==
    SelectSeq([i \in 1..Len(segs) |-> LabelSegment(segs[i], diarization)],
              LAMBDA seg : seg.speaker # UNKNOWN)

\* diarization.py 218-253.
assign_speakers(segs, diarization) ==
    [i \in 1..Len(segs) |-> LabelSegment(segs[i], diarization)]

\* ------------------------------------------- values of one command-line run
\* An optional number (Python's float-or-None): << >> is None, <<n>> is n.
NoNumber == << >>
Some(n) == <<n>>
\* Python truthiness of a float-or-None: None and 0.0 are falsy.
TruthyNum(x) == x # NoNumber /\ x[1] # 0

\* A transcript segment before alignment; text is opaque and here names the
\* segment's place in the input.
Segment(s, e, txt) == [start |-> s, end |-> e, text |-> txt, speaker |-> Absent]

\* A JSON document as load_transcription sees it: the type of the top-level
\* value ("invalid" when the file is not JSON), the type of the value under
\* the key 'segments' ("absent" when there is no such key) and the elements
\* a loop over the returned value visits.
JsonDoc(top, seg, items) == [top |-> top, seg |-> seg, items |-> items]
NoDoc == JsonDoc("unread", "absent", << >>)

\* The transcription files of the runs modelled.
Docs ==
    { JsonDoc("array", "absent", <<Segment(0, 2, 1)>>),
      JsonDoc("object", "array",
              <<Segment(0, 1, 1), Segment(1, 2, 2), Segment(5, 6, 3)>>),
      JsonDoc("object", "absent", << >>),        \* {"foo": []}
      JsonDoc("number", "absent", << >>),        \* 5
      JsonDoc("object", "number", << >>),        \* {"segments": 5}
      JsonDoc("object", "object", << >>),        \* {"segments": {}}
      JsonDoc("array", "absent",                 \* [{"end": 1, "text": ..}]
              <<[end |-> 1, text |-> 1, speaker |-> Absent]>>),
      JsonDoc("invalid", "absent", << >>) }

\* The turn lists the engine's tracks yield in the runs modelled (the second
\* is the example of the specification: a tie on segment (0, 2)).
TrackLists ==
    { << >>,
      << <<0, 1, "A">>, <<1, 3, "B">> >>,
      << <<0, 1, "B">>, <<1, 2, "A">>, <<0, 1, "A">> >> }

\* What the engine call returns, as the hasattr/getattr tests of lines 192-206
\* see it: whether the object itself has itertracks; what its attributes
\* 'annotation' and 'diarization' are ("absent", or "tracks" for an object
\* with itertracks, or "other"); what dir() finds beyond those, in dir()'s
\* order; and the tracks its annotation yields.
Raw(self, annotation, diarization, attrs, tracks) ==
    [itertracks |-> self, annotation |-> annotation, diarization |-> diarization,
     attrs |-> attrs, tracks |-> tracks]
NoRaw == Raw(FALSE, "absent", "absent", << >>, << >>)

RawResults ==
    { Raw(TRUE, "absent", "absent", << >>, t) : t \in TrackLists } \cup
    { Raw(FALSE, "tracks", "absent", <<"other">>, << <<0, 1, "A">>, <<1, 3, "B">> >>),
      Raw(FALSE, "absent", "tracks", <<"other">>, << <<0, 1, "A">>, <<1, 3, "B">> >>),
      Raw(FALSE, "absent", "absent", <<"other", "tracks">>,
          << <<0, 1, "A">>, <<1, 3, "B">> >>),
      Raw(FALSE, "absent", "absent", <<"other">>, << >>),
      Raw(FALSE, "other", "tracks", << >>, << <<0, 1, "A">>, <<1, 3, "B">> >>) }

\* The audio file as wave.open sees it (lines 320-322): readable as WAV or
\* not, its frame count and its frame rate.
Wav(ok, nframes, framerate) ==
    [read |-> TRUE, ok |-> ok, nframes |-> nframes, framerate |-> framerate]
NoWav == [read |-> FALSE, ok |-> FALSE, nframes |-> 0, framerate |-> 0]
Wavs == { Wav(FALSE, 0, 0), Wav(TRUE, 0, 2), Wav(TRUE, 4, 0), Wav(TRUE, 4, 2) }

\* total_elapsed (line 316), in whole seconds.
Elapsed == {0, 3}

NoDiarizer == [built |-> FALSE, hf_token |-> FALSE, loadedFrom |-> "none"]
NoTiming ==
    [processing_seconds |-> 0, audio_seconds |-> NoNumber,
     realtime_factor |-> NoNumber]
NoResult ==
    [returned |-> FALSE, segments |-> << >>, speakers |-> << >>,
     diarization |-> << >>, timing |-> NoTiming]
NoFiles == [json |-> "none", srt |-> "none"]

\* No command-line run is under way.
RunIdle ==
    /\ pc = "idle"
    /\ exitStatus = "running"
    /\ failure = ""
    /\ diarizer = NoDiarizer
    /\ doc = NoDoc
    /\ loadOutcome = "not called"
    /\ rawResult = NoRaw
    /\ wav = NoWav
    /\ stop_progress = FALSE
    /\ worker = "unstarted"
    /\ notices = 0
    /\ result = NoResult
    /\ files = NoFiles

\* ------------------------------------------------------ alignment harness
Times == 0..MaxTime

\* Sequences over S of length 0..n.
SeqsUpTo(S, n) == UNION {[1..k -> S] : k \in 0..n}

\* A turn as diarize_file builds it (line 211): (turn.start, turn.end, speaker),
\* a stretch of audio with start < end.  A tuple with end <= start has overlap
\* 0 with every segment (Overlap) and is to the scan as if it were not there.
TurnTuples == {t \in Times \X Times \X SpeakerIds : t[1] < t[2]}

\* The (start, end) of a transcript segment: end >= start, zero length
\* included.  A segment with end < start has overlap 0 with every turn, as a
\* zero-length segment has.
SegmentSpans == {iv \in Times \X Times : iv[1] <= iv[2]}

InitAlign ==
    /\ turns \in SeqsUpTo(TurnTuples, MaxTurns)
    /\ \E iv \in SeqsUpTo(SegmentSpans, MaxSegs) :
           segments = [i \in 1..Len(iv) |-> Segment(iv[i][1], iv[i][2], i)]
    /\ runs = 0
    /\ inSegments = segments
    /\ firstRun = << >>
    /\ RunIdle

\* A call of assign_speakers(segments, turns): the list is relabelled in place.
Assign ==
    /\ runs < 2
    /\ segments' = assign_speakers(segments, turns)
    /\ runs' = runs + 1
    /\ firstRun' = IF runs = 0 THEN segments' ELSE firstRun
    /\ UNCHANGED <<turns, inSegments, runVars>>

NextAlign == Assign

SpecAlign == InitAlign /\ [][NextAlign]_vars

\* ------------------------------------------ OfflineDiarizer, piece by piece
\* __init__ (lines 55-110): the exception it raises ("" for none) and the
\* object it builds, from whether pyannote.audio imports, whether a token was
\* given (argument or HF_TOKEN), whether the model loads from the cache
\* without a token, whether it loads with the token, and whether
\* pipeline.to(device) succeeds.
OfflineDiarizer_init(importable, token, cached, tokenLoads, deviceOk) ==
    LET fail(e) == [failure |-> e, diarizer |-> NoDiarizer]
        built(from) ==
            IF deviceOk
            THEN [failure |-> "",
                  diarizer |-> [built |-> TRUE, hf_token |-> token,
                                loadedFrom |-> from]]
            ELSE fail("RuntimeError")
    IN  IF ~importable THEN fail("ImportError")
        ELSE IF ~token /\ cached THEN built("cache")
        ELSE IF ~token THEN fail("ValueError: HuggingFace token required")
        ELSE IF tokenLoads THEN built("token")
        ELSE fail("Exception")

\* load_transcription (lines 255-273): the exception raised ("" for none) and
\* the type of the value returned.
load_transcription(d) ==
    IF d.top = "invalid"
    THEN [failure |-> "ValueError: JSONDecodeError", kind |-> "none"]
    ELSE IF d.top = "array" THEN [failure |-> "", kind |-> "array"]
    ELSE IF d.top = "object" /\ d.seg # "absent"
    THEN [failure |-> "", kind |-> d.seg]
    ELSE [failure |-> "ValueError: Invalid transcription format", kind |-> "none"]

\* The finally clause with the set() moved to the normal path only.
StopAfterCallOnReturnOnly(callFailure, stop) ==
    IF callFailure = "" THEN TRUE ELSE stop

\* Lines 179-185: the stop flag after the try/finally around the engine call;
\* the finally clause sets it whether the call returned or raised.
StopAfterCall(callFailure, stop) == TRUE

\* Lines 200-206: the first attribute dir() lists whose value has itertracks.
RECURSIVE ScanAttrs(_, _)
ScanAttrs(attrs, i) ==
    IF i > Len(attrs) THEN "none"
    ELSE IF attrs[i] = "tracks" THEN "tracks"
    ELSE ScanAttrs(attrs, i + 1)

\* Lines 192-206: what `diarization` is bound to: "tracks" (an object with
\* itertracks), "other" (an object without), or "none" (the ValueError of
\* line 206).
ResolveDiarization(r) ==
    IF r.itertracks THEN "tracks"
    ELSE IF r.annotation # "absent" THEN r.annotation
    ELSE IF r.diarization # "absent" THEN r.diarization
    ELSE ScanAttrs(r.attrs, 1)

\* ExtractTurns going on with no turns when nothing with itertracks is found.
ExtractTurnsLenient(r) ==
    LET d == ResolveDiarization(r)
    IN  IF d = "tracks" THEN [failure |-> "", turns |-> r.tracks]
        ELSE [failure |-> "", turns |-> << >>]

\* Lines 190-216: the exception raised ("" for none) and the turns returned.
ExtractTurns(r) ==
    LET d == ResolveDiarization(r)
    IN  IF d = "none"
        THEN [failure |-> "ValueError: Cannot extract diarization", turns |-> << >>]
        ELSE IF d = "other"
        THEN [failure |-> "AttributeError", turns |-> << >>]
        ELSE [failure |-> "", turns |-> r.tracks]

\* Python's order on the labels that occur: by code point.
LabelRank(l) ==
    CASE l = "" -> 0 [] l = "A" -> 1 [] l = "B" -> 2 [] l = "UNKNOWN" -> 3

\* sorted(S) for a set S of labels.
RECURSIVE SortLabels(_)
SortLabels(S) ==
    IF S = {} THEN << >>
    ELSE LET m == CHOOSE x \in S : \A y \in S : LabelRank(x) <= LabelRank(y)
         IN  <<m>> \o SortLabels(S \ {m})

\* Line 314 leaving the sentinel out of the list.
SpeakersOfNamed(segs) ==
    SortLabels({segs[i].speaker : i \in 1..Len(segs)} \ {UNKNOWN})

\* Line 314: sorted(set(seg['speaker'] for seg in segments_with_speakers)).
SpeakersOf(segs) == SortLabels({segs[i].speaker : i \in 1..Len(segs)})

\* Lines 319-326 without the try/except around them.
WaveStatsNoCatch(w, total_elapsed) ==
    LET none(e) == [failure |-> e, audio_duration |-> NoNumber,
                    realtime_factor |-> NoNumber]
    IN  IF ~w.ok THEN none("wave.Error")
        ELSE IF w.framerate = 0 THEN none("ZeroDivisionError")
        ELSE IF w.nframes \div w.framerate = 0 THEN none("ZeroDivisionError")
        ELSE [failure |-> "",
              audio_duration |-> Some(w.nframes \div w.framerate),
              realtime_factor |->
                  Some((100 * total_elapsed) \div (w.nframes \div w.framerate))]

\* Lines 319-326: audio_duration (seconds) and realtime_factor (hundredths),
\* both None when wave.open fails or a division by zero is caught; failure is
\* what escapes the try/except (nothing does).  The frame counts and rates
\* drawn make both quotients whole.
WaveStats(w, total_elapsed) ==
    LET none == [failure |-> "", audio_duration |-> NoNumber,
                 realtime_factor |-> NoNumber]
    IN  IF ~w.ok THEN none
        ELSE IF w.framerate = 0 THEN none
        ELSE IF w.nframes \div w.framerate = 0 THEN none
        ELSE [failure |-> "",
              audio_duration |-> Some(w.nframes \div w.framerate),
              realtime_factor |->
                  Some((100 * total_elapsed) \div (w.nframes \div w.framerate))]

\* Lines 342-346: the timing entry of the result.
Timing(total_elapsed, st) ==
    [processing_seconds |-> total_elapsed,
     audio_seconds |->
         IF TruthyNum(st.audio_duration) THEN st.audio_duration ELSE NoNumber,
     realtime_factor |->
         IF TruthyNum(st.realtime_factor) THEN st.realtime_factor ELSE NoNumber]

\* An except clause that saves what there is before exiting.
FilesOnFailureDump(fs) == [fs EXCEPT !.json = "written"]

\* run_diarization.py 145-155: the except clauses print and exit; they write
\* no file.
FilesOnFailure(fs) == fs

\* A daemon thread ends with the process (line 168: daemon=True).
WorkerAtExit(w) == IF w \in {"waiting", "printing"} THEN "killed" ELSE w

\* ------------------------------------------------- one command-line run
Init ==
    /\ segments = << >>
    /\ turns = << >>
    /\ runs = 0
    /\ inSegments = << >>
    /\ firstRun = << >>
    /\ RunIdle

\* The primary thread moves to `to`; nothing else changes but what is named.
Goto(to) == pc' = to

\* An exception leaves the try block of main (line 116) for its except
\* clauses.
Raise(e) == failure' = e /\ pc' = "failed"

\* run_diarization.py 100: the arguments are parsed.
ParseArgs ==
    /\ pc = "idle"
    /\ Goto("check_audio")
    /\ UNCHANGED <<segments, turns, alignVars, exitStatus, failure, diarizer, doc,
                   loadOutcome, rawResult, wav, stop_progress, worker, notices,
                   result, files>>

\* run_diarization.py 103-106: the audio path is tested; sys.exit(1) if it
\* does not exist.
CheckAudio ==
    /\ pc = "check_audio"
    /\ \E exists \in BOOLEAN :
           IF exists
           THEN Goto("check_transcription") /\ UNCHANGED <<exitStatus, failure>>
           ELSE /\ Goto("exited")
                /\ exitStatus' = "1"
                /\ failure' = "Audio file not found"
    /\ UNCHANGED <<segments, turns, alignVars, diarizer, doc, loadOutcome,
                   rawResult, wav, stop_progress, worker, notices, result, files>>

\* run_diarization.py 108-111: the same for the transcription path.
CheckTranscription ==
    /\ pc = "check_transcription"
    /\ \E exists \in BOOLEAN :
           IF exists
           THEN Goto("construct") /\ UNCHANGED <<exitStatus, failure>>
           ELSE /\ Goto("exited")
                /\ exitStatus' = "1"
                /\ failure' = "Transcription file not found"
    /\ UNCHANGED <<segments, turns, alignVars, diarizer, doc, loadOutcome,
                   rawResult, wav, stop_progress, worker, notices, result, files>>

\* run_diarization.py 114-121: OfflineDiarizer(hf_token, device).
Construct ==
    /\ pc = "construct"
    /\ \E importable, token, cached, tokenLoads, deviceOk \in BOOLEAN :
           LET r == OfflineDiarizer_init(importable, token, cached, tokenLoads,
                                         deviceOk)
           IN  /\ diarizer' = r.diarizer
               /\ IF r.failure = ""
                  THEN Goto("load") /\ UNCHANGED failure
                  ELSE Raise(r.failure)
    /\ UNCHANGED <<segments, turns, alignVars, exitStatus, doc, loadOutcome,
                   rawResult, wav, stop_progress, worker, notices, result, files>>

\* diarization.py 296-300: process loads the transcription and prints the
\* number of segments (len() of a number is a TypeError).
Load ==
    /\ pc = "load"
    /\ \E d \in Docs :
           LET r == load_transcription(d)
           IN  /\ doc' = d
               /\ loadOutcome' = IF r.failure = "" THEN "returned" ELSE r.failure
               /\ IF r.failure # ""
                  THEN Raise(r.failure) /\ UNCHANGED segments
                  ELSE IF r.kind = "number"
                  THEN Raise("TypeError") /\ UNCHANGED segments
                  ELSE /\ segments' = d.items
                       /\ Goto("diarize")
                       /\ UNCHANGED failure
    /\ UNCHANGED <<turns, alignVars, exitStatus, diarizer, rawResult, wav,
                   stop_progress, worker, notices, result, files>>

\* diarization.py 131-176: diarize_file probes the duration (for its notices
\* only), creates the Event and starts the progress thread (show_progress
\* keeps its default, True, in process).
StartDiarize ==
    /\ pc = "diarize"
    /\ stop_progress' = FALSE
    /\ worker' = "waiting"
    /\ Goto("engine")
    /\ UNCHANGED <<segments, turns, alignVars, exitStatus, failure, diarizer, doc,
                   loadOutcome, rawResult, wav, notices, result, files>>

\* diarization.py 180-183: the blocking engine call returns a result.
EngineReturns ==
    /\ pc = "engine"
    /\ \E r \in RawResults : rawResult' = r
    /\ Goto("finally")
    /\ UNCHANGED <<segments, turns, alignVars, exitStatus, failure, diarizer, doc,
                   loadOutcome, wav, stop_progress, worker, notices, result, files>>

\* diarization.py 180-183: the engine call raises.
EngineRaises ==
    /\ pc = "engine"
    /\ failure' = "EngineError"
    /\ Goto("finally")
    /\ UNCHANGED <<segments, turns, alignVars, exitStatus, diarizer, doc,
                   loadOutcome, rawResult, wav, stop_progress, worker, notices,
                   result, files>>

\* diarization.py 184-185: the finally clause; a pending exception then goes
\* on to main's except clauses.
Finally ==
    /\ pc = "finally"
    /\ stop_progress' = StopAfterCall(failure, stop_progress)
    /\ Goto(IF failure = "" THEN "extract" ELSE "failed")
    /\ UNCHANGED <<segments, turns, alignVars, exitStatus, failure, diarizer, doc,
                   loadOutcome, rawResult, wav, worker, notices, result, files>>

\* diarization.py 187-216: the turns are taken from the result.
Extract ==
    /\ pc = "extract"
    /\ LET r == ExtractTurns(rawResult)
       IN  IF r.failure = ""
           THEN turns' = r.turns /\ Goto("align") /\ UNCHANGED failure
           ELSE Raise(r.failure) /\ UNCHANGED turns
    /\ UNCHANGED <<segments, alignVars, exitStatus, diarizer, doc, loadOutcome,
                   rawResult, wav, stop_progress, worker, notices, result, files>>

\* diarization.py 309-311: assign_speakers on the loaded segments; a segment
\* without 'start' or 'end' is a KeyError at line 234 or 235.
Align ==
    /\ pc = "align"
    /\ IF \E i \in 1..Len(segments) :
              ~ ({"start", "end"} \subseteq DOMAIN segments[i])
       THEN Raise("KeyError") /\ UNCHANGED segments
       ELSE /\ segments' = assign_speakers(segments, turns)
            /\ Goto("summarize")
            /\ UNCHANGED failure
    /\ UNCHANGED <<turns, alignVars, exitStatus, diarizer, doc, loadOutcome,
                   rawResult, wav, stop_progress, worker, notices, result, files>>

\* diarization.py 313-347: the speaker list, the timing and the result.
Summarize ==
    /\ pc = "summarize"
    /\ \E total_elapsed \in Elapsed, w \in Wavs :
           LET st == WaveStats(w, total_elapsed)
           IN  /\ wav' = w
               /\ IF st.failure # ""
                  THEN Raise(st.failure) /\ UNCHANGED result
                  ELSE /\ result' =
                              [returned |-> TRUE,
                               segments |-> segments,
                               speakers |-> SpeakersOf(segments),
                               diarization |-> turns,
                               timing |-> Timing(total_elapsed, st)]
                       /\ Goto("save_json")
                       /\ UNCHANGED failure
    /\ UNCHANGED <<segments, turns, alignVars, exitStatus, diarizer, doc,
                   loadOutcome, rawResult, stop_progress, worker, notices, files>>

\* run_diarization.py 132, diarization.py 349-353: save_json.  open() may
\* fail (no file); the write of json.dump may fail after open() created the
\* file (a full disk), which leaves a truncated file.
SaveJson ==
    /\ pc = "save_json"
    /\ \E outcome \in {"ok", "open fails", "dump fails"} :
           /\ files' = [files EXCEPT !.json =
                            CASE outcome = "ok" -> "written"
                              [] outcome = "open fails" -> "none"
                              [] outcome = "dump fails" -> "partial"]
           /\ IF outcome = "ok"
              THEN Goto("save_srt") /\ UNCHANGED failure
              ELSE Raise("OSError")
    /\ UNCHANGED <<segments, turns, alignVars, exitStatus, diarizer, doc,
                   loadOutcome, rawResult, wav, stop_progress, worker, notices,
                   result>>

\* run_diarization.py 134-135, diarization.py 355-359: save_srt, if
\* --output_srt was given.  The import of the formatter may fail, and so may
\* its write.
SaveSrt ==
    /\ pc = "save_srt"
    /\ \E output_srt \in BOOLEAN,
          outcome \in {"ok", "import fails", "open fails", "write fails"} :
           IF ~output_srt
           THEN Goto("summary") /\ UNCHANGED <<failure, files>>
           ELSE /\ files' = [files EXCEPT !.srt =
                                 CASE outcome = "ok" -> "written"
                                   [] outcome = "write fails" -> "partial"
                                   [] OTHER -> "none"]
                /\ IF outcome = "ok"
                   THEN Goto("summary") /\ UNCHANGED failure
                   ELSE Raise(IF outcome = "import fails" THEN "ImportError"
                              ELSE "OSError")
    /\ UNCHANGED <<segments, turns, alignVars, exitStatus, diarizer, doc,
                   loadOutcome, rawResult, wav, stop_progress, worker, notices,
                   result>>

\* run_diarization.py 137-143 and the return of main: the summary is printed
\* and the process ends with status 0.
ExitSuccess ==
    /\ pc = "summary"
    /\ Goto("exited")
    /\ exitStatus' = "0"
    /\ worker' = WorkerAtExit(worker)
    /\ UNCHANGED <<segments, turns, alignVars, failure, diarizer, doc, loadOutcome,
                   rawResult, wav, stop_progress, notices, result, files>>

\* run_diarization.py 145-155: an except clause prints and calls sys.exit(1).
ExitFailure ==
    /\ pc = "failed"
    /\ Goto("exited")
    /\ exitStatus' = "1"
    /\ files' = FilesOnFailure(files)
    /\ worker' = WorkerAtExit(worker)
    /\ UNCHANGED <<segments, turns, alignVars, failure, diarizer, doc, loadOutcome,
                   rawResult, wav, stop_progress, notices, result>>

\* diarization.py 159: stop_progress.wait(30) times out with the flag not set
\* and returns False: the loop body is entered.
WorkerWaitTimesOut ==
    /\ worker = "waiting"
    /\ ~stop_progress
    /\ notices < MaxNotices
    /\ worker' = "printing"
    /\ UNCHANGED <<segments, turns, alignVars, pc, exitStatus, failure, diarizer,
                   doc, loadOutcome, rawResult, wav, stop_progress, notices,
                   result, files>>

\* diarization.py 160-165: the loop body prints one [PROGRESS] line.
WorkerPrints ==
    /\ worker = "printing"
    /\ notices' = notices + 1
    /\ worker' = "waiting"
    /\ UNCHANGED <<segments, turns, alignVars, pc, exitStatus, failure, diarizer,
                   doc, loadOutcome, rawResult, wav, stop_progress, result, files>>

\* diarization.py 159: wait() returns True because the flag is set; the loop
\* and the thread end.
WorkerLeaves ==
    /\ worker = "waiting"
    /\ stop_progress
    /\ worker' = "done"
    /\ UNCHANGED <<segments, turns, alignVars, pc, exitStatus, failure, diarizer,
                   doc, loadOutcome, rawResult, wav, stop_progress, notices,
                   result, files>>

MainNext ==
    \/ ParseArgs \/ CheckAudio \/ CheckTranscription \/ Construct \/ Load
    \/ StartDiarize \/ EngineReturns \/ EngineRaises \/ Finally \/ Extract
    \/ Align \/ Summarize \/ SaveJson \/ SaveSrt \/ ExitSuccess \/ ExitFailure

WorkerNext == WorkerWaitTimesOut \/ WorkerPrints \/ WorkerLeaves

Next == MainNext \/ WorkerNext

Spec == Init /\ [][Next]_vars

\* The progress thread is scheduled: a step it can take (a wait that times
\* out or wakes, a print) is taken in the end, unless the process ends first.
\* Nothing is assumed of the primary thread (the engine call may never end, a
\* caller of process may never exit).
FairSpec == Spec /\ WF_vars(WorkerNext)

\* ---------------------------------------------------- alignment properties
\* The overlap of the claims: max(0, min(seg.end, turn.end) - max(seg.start,
\* turn.start)), written out by cases.
ClaimOverlap(seg, t) ==
    LET lo == IF seg.start >= t[1] THEN seg.start ELSE t[1]
        hi == IF seg.end <= t[2] THEN seg.end ELSE t[2]
    IN  IF hi - lo >= 0 THEN hi - lo ELSE 0

\* The greatest overlap any turn has with seg (0 for an empty turn list).
GreatestOverlap(seg) ==
    IF turns = << >> THEN 0
    ELSE CHOOSE m \in 0..MaxTime :
             /\ \E j \in 1..Len(turns) : ClaimOverlap(seg, turns[j]) = m
             /\ \A j \in 1..Len(turns) : ClaimOverlap(seg, turns[j]) <= m

\* The turns whose overlap with seg is the greatest.
GreatestTurns(seg) ==
    {j \in 1..Len(turns) : ClaimOverlap(seg, turns[j]) = GreatestOverlap(seg)}

\* C1: after assign_speakers, every segment that some turn overlaps by more
\* than 0 carries the speakerId of a turn whose overlap with it is the greatest
\* among all turns.
C1_MaxOverlapSpeaker ==
    runs >= 1 =>
        \A i \in 1..Len(segments) :
            GreatestOverlap(segments[i]) > 0 =>
                \E j \in GreatestTurns(segments[i]) :
                    segments[i].speaker = turns[j][3]

\* C2: after assign_speakers, a segment with which two or more turns have the
\* same greatest, positive overlap carries the speaker of the first of those
\* turns in the order of the turn list.
C2_FirstOfTiedTurns ==
    runs >= 1 =>
        \A i \in 1..Len(segments) :
            LET tied == GreatestTurns(segments[i])
            IN  (GreatestOverlap(segments[i]) > 0 /\ Cardinality(tied) >= 2) =>
                    \E j \in tied :
                        /\ \A k \in tied : j <= k
                        /\ segments[i].speaker = turns[j][3]

\* C3: after assign_speakers, a segment whose overlap with every turn is 0
\* (no turns at all, turns it only touches at an endpoint, a segment of zero
\* length) is labelled "UNKNOWN".
C3_NoOverlapUnknown ==
    runs >= 1 =>
        \A i \in 1..Len(segments) :
            (\A j \in 1..Len(turns) : ClaimOverlap(segments[i], turns[j]) = 0) =>
                segments[i].speaker = "UNKNOWN"

\* C3 witness: a segment of positive length that a turn with a speaker touches
\* at an endpoint, and nothing overlaps, has been labelled UNKNOWN.
C3_Witness ==
    /\ runs >= 1
    /\ \E i \in 1..Len(segments) :
           /\ segments[i].start < segments[i].end
           /\ \E j \in 1..Len(turns) :
                  turns[j][3] = "A" /\ turns[j][2] = segments[i].start
           /\ \A j \in 1..Len(turns) : ClaimOverlap(segments[i], turns[j]) = 0
           /\ segments[i].speaker = "UNKNOWN"

ResultLabels == {result.segments[i].speaker : i \in 1..Len(result.segments)}

\* C4: whenever process returned a result, result.speakers is the sorted,
\* duplicate-free sequence of exactly the labels on result.segments ("UNKNOWN"
\* included), and holds no speaker of the diarization that no segment got.
C4_SpeakersAreSegmentLabels ==
    result.returned =>
        /\ {result.speakers[k] : k \in 1..Len(result.speakers)} = ResultLabels
        /\ \A k \in 1..(Len(result.speakers) - 1) :
               LabelRank(result.speakers[k]) < LabelRank(result.speakers[k + 1])
        /\ \A j \in 1..Len(result.diarization) :
               result.diarization[j][3] \notin ResultLabels =>
                   \A k \in 1..Len(result.speakers) :
                       result.speakers[k] # result.diarization[j][3]

\* C4 witness: a result whose segments are labelled B, A, UNKNOWN in that
\* order and whose speakers are A, B, UNKNOWN.
C4_Witness ==
    /\ result.returned
    /\ Len(result.segments) = 3
    /\ result.segments[1].speaker = "B"
    /\ result.segments[2].speaker = "A"
    /\ result.segments[3].speaker = "UNKNOWN"
    /\ result.speakers = <<"A", "B", "UNKNOWN">>

\* Some output file is on disk, whole or in part.
SomeFile == files.json # "none" \/ files.srt # "none"

\* C5 as amended: an output file is on disk only if process returned its
\* result (Loading, Diarizing, Aligning and Summarizing all completed without
\* failure); a run that ends with status 1 without process having returned
\* has written no output file.
C5_FilesOnlyAfterProcess ==
    /\ SomeFile =>
           /\ result.returned
           /\ loadOutcome = "returned"
           /\ stop_progress
           /\ pc \in {"save_srt", "summary", "failed", "exited"}
    /\ (exitStatus = "1" /\ ~result.returned) => ~SomeFile

\* C5 witness: a run that failed in Aligning, after the engine call, has
\* exited with status 1 and no file.
C5_Witness ==
    /\ exitStatus = "1"
    /\ failure = "KeyError"
    /\ stop_progress
    /\ ~SomeFile

\* C5 as stated: output files exist iff the run reached Done; no file is
\* written unless the four stages completed, and a run that ends with exit
\* status 1 has written no output file.
C5_NoFileOnFailure ==
    /\ SomeFile => result.returned
    /\ exitStatus = "1" => ~SomeFile

\* The transcript shapes of the specification: a top-level array, or a
\* top-level object whose `segments` field holds an array.
AcceptedShape(d) == d.top = "array" \/ (d.top = "object" /\ d.seg = "array")

\* C6: a run that has ended has status 1 if an input file was missing, the
\* credential was missing (the MissingCredential error: no token and no model
\* in the cache), the transcript had an unrecognized shape, or a processing or
\* output step raised; it has status 0 only if the pipeline and the output
\* writes succeeded; and a missing input file ends the run before the
\* diarizer is constructed and before any diarization work.
C6_ExitStatus ==
    pc = "exited" =>
        /\ failure # "" => exitStatus = "1"
        /\ (doc # NoDoc /\ ~AcceptedShape(doc)) => exitStatus = "1"
        /\ exitStatus = "0" =>
               /\ failure = ""
               /\ result.returned
               /\ files.json = "written"
               /\ files.srt \in {"none", "written"}
        /\ failure \in {"Audio file not found", "Transcription file not found"} =>
               /\ ~diarizer.built
               /\ loadOutcome = "not called"
               /\ worker = "unstarted"
               /\ rawResult = NoRaw

\* C7: load_transcription returns only for a top-level array or a top-level
\* object whose `segments` holds an array; for every other JSON document it
\* raises the invalid-format error and returns nothing.
C7_LoadRejectsOtherShapes ==
    (loadOutcome # "not called" /\ doc.top # "invalid") =>
        /\ loadOutcome = "returned" => AcceptedShape(doc)
        /\ ~AcceptedShape(doc) =>
               loadOutcome = "ValueError: Invalid transcription format"

\* The audio duration cannot be determined (wave.open fails, the frame rate
\* is 0) or is zero.
NoDuration(w) == ~w.ok \/ w.framerate = 0 \/ w.nframes \div w.framerate = 0

LeftEngineCall == worker # "unstarted" /\ pc \notin {"engine", "finally"}

\* The progress thread has ended: it left its loop, or it died with the
\* process (it is a daemon thread).
WorkerEnded == worker \in {"done", "killed"}

\* C10: past the engine call, however it ended, the stop flag is set; once
\* set it stays set; and once it is set the progress thread ends.
C10_StopFlagEndsWorker ==
    /\ [](LeftEngineCall => stop_progress)
    /\ [][stop_progress => stop_progress']_vars
    /\ (stop_progress ~> WorkerEnded)

\* C10 witness: the engine call raised, the flag is set and the progress
\* thread has left its loop.
C10_Witness ==
    /\ failure = "EngineError"
    /\ stop_progress
    /\ worker = "done"

\* C11: under every interleaving of the two threads, no [PROGRESS] line is
\* printed once the engine call has returned or raised and the stop flag has
\* been set: a step taken with the flag set leaves the count of notices as
\* it is.
C11_NoNoticeAfterStop ==
    [][stop_progress => notices' = notices]_vars

\* The stage of the run (specification 4.4) the primary thread is in.
Stage ==
    CASE pc \in {"idle", "check_audio", "check_transcription", "construct"} -> "Idle"
      [] pc = "load" -> "Loading"
      [] pc \in {"diarize", "engine", "finally", "extract"} -> "Diarizing"
      [] pc = "align" -> "Aligning"
      [] pc = "summarize" -> "Summarizing"
      [] pc \in {"save_json", "save_srt", "summary"} -> "Done"
      [] pc = "failed" -> "Failed"
      [] pc = "exited" -> IF exitStatus = "0" THEN "Done" ELSE "Failed"

StageRank(st) ==
    CASE st = "Idle" -> 0 [] st = "Loading" -> 1 [] st = "Diarizing" -> 2
      [] st = "Aligning" -> 3 [] st = "Summarizing" -> 4 [] st = "Done" -> 5
      [] st = "Failed" -> 6

\* The engine has been called (the progress thread is started just before).
EngineCalled == worker # "unstarted"

\* C12: a run goes through Loading, Diarizing, Aligning, Summarizing, Done in
\* that order, one stage at a time, or to Failed: the engine is called only
\* after the transcript loaded, alignment starts only after the engine call
\* returned and its turns were extracted, a result is returned only after
\* summarizing, and once a stage has failed no later stage is entered.
C12_StageOrder ==
    /\ [][\/ Stage' = Stage
          \/ StageRank(Stage') = StageRank(Stage) + 1
          \/ Stage' = "Failed"]_vars
    /\ [][Stage = "Failed" => Stage' = "Failed"]_vars
    /\ [](EngineCalled => loadOutcome = "returned")
    /\ [](Stage \in {"Aligning", "Summarizing", "Done"} =>
              /\ rawResult # NoRaw
              /\ stop_progress
              /\ ResolveDiarization(rawResult) = "tracks"
              /\ turns = rawResult.tracks)
    /\ [](result.returned => (wav.read /\ Stage \in {"Done", "Failed"}))
    /\ [](Stage = "Done" => result.returned)
    /\ [](failure # "" => pc \in {"finally", "failed", "exited"})

\* C12 witness: a run that went through every stage has ended in Done.
C12_Witness ==
    /\ pc = "exited"
    /\ Stage = "Done"
    /\ result.returned
    /\ Len(result.segments) = 3

\* Some candidate of the resolution policy exposes per-track iteration: the
\* result itself, its `annotation`, its `diarization`, or another attribute.
HasCandidate(r) ==
    \/ r.itertracks
    \/ r.annotation = "tracks"
    \/ r.diarization = "tracks"
    \/ \E i \in 1..Len(r.attrs) : r.attrs[i] = "tracks"

\* The extraction of lines 190-216 has run on the engine's result.
Extracted == rawResult # NoRaw /\ pc \notin {"finally", "extract"}

\* C13: once the extraction has run, if some candidate exposed per-track
\* iteration it succeeded with the engine's turns in their order; if none did
\* it failed with the unrecognized-result error, and with no other.
C13_ExtractionPolicy ==
    Extracted =>
        IF HasCandidate(rawResult)
        THEN /\ failure \notin {"AttributeError",
                                "ValueError: Cannot extract diarization"}
             /\ turns = rawResult.tracks
        ELSE failure = "ValueError: Cannot extract diarization"

====
